---- MODULE Spec2Model ----
(***************************************************************************)
(* A model of the fmtastic formatting library: the integer abstraction     *)
(* (src/integer.rs), the two digit engines (src/utils.rs and               *)
(* src/sub_superscript.rs), the Superscript / Subscript formatters, the    *)
(* VulgarFraction formatter (src/fraction.rs), Roman numerals              *)
(* (src/roman.rs), TallyMarks, Segmented and Outlined.                     *)
(*                                                                         *)
(* Every formatter is a pure function of its input value and of the        *)
(* formatting flags.  A state of the model is the last call made together  *)
(* with what the call did: the characters written to the output sink (as   *)
(* Unicode code points), the digit sequence or lookup result returned, and *)
(* whether the call panicked instead of returning.  The library keeps no   *)
(* state between calls: a call starts from the idle state and, once it is  *)
(* over, the model returns to it.  The one value with a life of its own is *)
(* a Roman numeral: it is constructed, may be switched to ASCII symbols    *)
(* any number of times, and is then formatted.                             *)
(***************************************************************************)
EXTENDS Integers, Sequences, FiniteSets

VARIABLES pc, call, out, digits, found, panicked, roman, emitted, leftover,
          iteration, steps, power

vars == <<pc, call, out, digits, found, panicked, roman, emitted, leftover,
          iteration, steps, power>>

\* The Roman value held by the caller (<<>> when there is none), the values
\* of the table entries its formatting has emitted, and the local `n` of
\* Display for Roman when the formatting ends.
romanVars == <<roman, emitted, leftover>>

\* What the loops leave behind: the counter of the TallyMarks loop when it
\* ends, the steps of the scan of utils::iter_digits (exponent, divisor,
\* running remainder and digit of each), and the power of the base that
\* sub_superscript::iter_digits starts from.
loopVars == <<iteration, steps, power>>

(***************************************************************************)
(* Bounds of the model.  8-bit types are explored exhaustively; the wider  *)
(* types are sampled around zero and at the edges of their range.          *)
(***************************************************************************)
MaxSmall == 12

MaxOperand == 10

(***************************************************************************)
(* Integer types (impl_unsigned_integer! / impl_signed_integer!).          *)
(***************************************************************************)
Types == {"u8", "i8", "u16", "i16"}

IsSigned(ty) == ty \in {"i8", "i16"}

Pow2(e) == IF e = 8 THEN 256 ELSE 65536

Bits(ty) == IF ty \in {"u8", "i8"} THEN 8 ELSE 16

TypeMin(ty) == IF IsSigned(ty) THEN -(Pow2(Bits(ty)) \div 2) ELSE 0

TypeMax(ty) == IF IsSigned(ty) THEN (Pow2(Bits(ty)) \div 2) - 1 ELSE Pow2(Bits(ty)) - 1

InType(ty, x) == TypeMin(ty) <= x /\ x <= TypeMax(ty)

\* Two's complement wrap-around of a mathematical integer into the type.
Wrap(ty, x) ==
    LET m == Pow2(Bits(ty))
        r == x % m
    IN  IF IsSigned(ty) /\ r > TypeMax(ty) THEN r - m ELSE r

\* `self as usize`: a negative value is sign-extended and read as unsigned,
\* that is reduced modulo 2^(pointer width).  The model takes the narrowest
\* pointer width Rust supports (16 bits); on a wider target a negative value
\* becomes a larger number still, and every value of the modelled types that
\* is not negative is unchanged on all targets.
UsizeModulus == 65536

as_usize(x) == x % UsizeModulus

\* Rust's `/` and `%` truncate toward zero (the divisor is positive here).
TDiv(a, b) == IF a >= 0 THEN a \div b ELSE -((-a) \div b)

TRem(a, b) == a - b * TDiv(a, b)

(***************************************************************************)
(* Integer_::sign, Integer_::abs.                                          *)
(***************************************************************************)
\* A sign that takes zero for negative (`self > 0` for `self >= 0`).
sign_ZeroNegative(ty, x) ==
    IF ~IsSigned(ty) THEN "None"
    ELSE IF x > 0 THEN "Positive" ELSE "Negative"

sign(ty, x) ==
    IF ~IsSigned(ty) THEN "None"
    ELSE IF x >= 0 THEN "Positive" ELSE "Negative"

\* abs of the minimum of a signed type overflows: a panic when the build has
\* overflow checks, the minimum itself (wrapped) when it has not.
abs(ty, x, checks) ==
    IF ~IsSigned(ty) THEN [val |-> x, ok |-> TRUE]
    ELSE IF x = TypeMin(ty)
         THEN IF checks THEN [val |-> x, ok |-> FALSE]
                        ELSE [val |-> Wrap(ty, -x), ok |-> TRUE]
         ELSE [val |-> (IF x < 0 THEN -x ELSE x), ok |-> TRUE]

RECURSIVE MathPow(_, _)
MathPow(b, e) == IF e = 0 THEN 1 ELSE b * MathPow(b, e - 1)

\* Integer_::pow: overflow panics with overflow checks and wraps without.
pow(ty, b, e, checks) ==
    LET p == MathPow(b, e)
    IN  IF InType(ty, p) THEN [val |-> p, ok |-> TRUE]
        ELSE IF checks THEN [val |-> 0, ok |-> FALSE]
        ELSE [val |-> Wrap(ty, p), ok |-> TRUE]

(***************************************************************************)
(* Base descriptors (impl_bases!): Two and Ten.                            *)
(***************************************************************************)
Bases == {2, 10}

\* A logarithm one too small at the exact powers of the base.
RECURSIVE ILogPos_OffByOne(_, _)
ILogPos_OffByOne(b, x) == IF x <= b THEN 0 ELSE 1 + ILogPos_OffByOne(b, x \div b)

RECURSIVE ILogPos(_, _)
ILogPos(b, x) == IF x < b THEN 0 ELSE 1 + ILogPos(b, x \div b)

\* Base::ilog is x.ilog2() / x.ilog10(), which panic for x <= 0.
ilog(b, x) ==
    IF x <= 0 THEN [val |-> 0, ok |-> FALSE]
    ELSE [val |-> ILogPos(b, x), ok |-> TRUE]

(***************************************************************************)
(* utils::iter_digits.  The scan runs exp from largest_exp down to 0 with  *)
(* the state `remainder`, emitting remainder / divisor and then setting    *)
(* remainder to n % divisor.  Each step is recorded with its exponent,     *)
(* divisor, running remainder and digit.                                   *)
(***************************************************************************)
\* The scan with the state left as it is after each digit.
RECURSIVE UtilsScan_KeepsRemainder(_, _, _, _, _, _)
UtilsScan_KeepsRemainder(ty, b, n, remainder, exp, checks) ==
    LET divisor == pow(ty, b, exp, checks)
    IN  IF ~divisor.ok THEN [digits |-> <<>>, ok |-> FALSE, steps |-> <<>>]
        ELSE IF divisor.val = 0 THEN [digits |-> <<>>, ok |-> FALSE, steps |-> <<>>]
        ELSE LET digit == TDiv(remainder, divisor.val)
                 next  == remainder
                 rest  == IF exp = 0 THEN [digits |-> <<>>, ok |-> TRUE, steps |-> <<>>]
                          ELSE UtilsScan_KeepsRemainder(ty, b, n, next, exp - 1, checks)
                 step  == [exp |-> exp, divisor |-> divisor.val,
                           remainder |-> remainder, digit |-> digit]
             IN  [digits |-> <<as_usize(digit)>> \o rest.digits, ok |-> rest.ok,
                  steps |-> <<step>> \o rest.steps]

RECURSIVE UtilsScan(_, _, _, _, _, _)
UtilsScan(ty, b, n, remainder, exp, checks) ==
    LET divisor == pow(ty, b, exp, checks)
    IN  IF ~divisor.ok THEN [digits |-> <<>>, ok |-> FALSE, steps |-> <<>>]
        ELSE IF divisor.val = 0 THEN [digits |-> <<>>, ok |-> FALSE, steps |-> <<>>]
        ELSE LET digit == TDiv(remainder, divisor.val)
                 next  == TRem(n, divisor.val)
                 rest  == IF exp = 0 THEN [digits |-> <<>>, ok |-> TRUE, steps |-> <<>>]
                          ELSE UtilsScan(ty, b, n, next, exp - 1, checks)
                 step  == [exp |-> exp, divisor |-> divisor.val,
                           remainder |-> remainder, digit |-> digit]
             IN  [digits |-> <<as_usize(digit)>> \o rest.digits, ok |-> rest.ok,
                  steps |-> <<step>> \o rest.steps]

utils_iter_digits(ty, b, x, checks) ==
    LET n == abs(ty, x, checks)
    IN  IF ~n.ok THEN [digits |-> <<>>, ok |-> FALSE, steps |-> <<>>]
        ELSE LET largest_exp == ilog(b, n.val)
             IN  IF ~largest_exp.ok THEN [digits |-> <<>>, ok |-> FALSE, steps |-> <<>>]
                 ELSE UtilsScan(ty, b, n.val, n.val, largest_exp.val, checks)

(***************************************************************************)
(* sub_superscript::iter_digits.  The largest power of the base the type   *)
(* holds is found by checked multiplication; the successors run from that  *)
(* divisor down to 0, the first item carrying the digit 0, and the zero    *)
(* digits in front are skipped.                                            *)
(***************************************************************************)
checked_mul(ty, a, b) ==
    IF InType(ty, a * b) THEN [val |-> a * b, some |-> TRUE]
    ELSE [val |-> 0, some |-> FALSE]

RECURSIVE largest_exponent_of_base(_, _, _)
largest_exponent_of_base(ty, exponent, base) ==
    LET e == checked_mul(ty, exponent, base)
    IN  IF e.some THEN largest_exponent_of_base(ty, e.val, base) ELSE exponent

\* The successors with n handed on unreduced.
RECURSIVE successors_KeepsN(_, _, _)
successors_KeepsN(n, div, base) ==
    IF div = 0 THEN <<>>
    ELSE <<TDiv(n, div)>> \o successors_KeepsN(n, TDiv(div, base), base)

\* The digits of the items that follow the first item (0, n, div).
RECURSIVE successors(_, _, _)
successors(n, div, base) ==
    IF div = 0 THEN <<>>
    ELSE <<TDiv(n, div)>> \o successors(TRem(n, div), TDiv(div, base), base)

\* A filter that drops every zero digit, not the leading ones only.
RECURSIVE skip_while_zero_Everywhere(_)
skip_while_zero_Everywhere(ds) ==
    IF ds = <<>> THEN <<>>
    ELSE IF Head(ds) = 0 THEN skip_while_zero_Everywhere(Tail(ds))
    ELSE <<Head(ds)>> \o skip_while_zero_Everywhere(Tail(ds))

RECURSIVE skip_while_zero(_)
skip_while_zero(ds) ==
    IF ds = <<>> THEN <<>>
    ELSE IF Head(ds) = 0 THEN skip_while_zero(Tail(ds)) ELSE ds

sub_iter_digits(ty, x, base, checks) ==
    LET n == abs(ty, x, checks)
    IN  IF ~n.ok THEN [digits |-> <<>>, ok |-> FALSE, power |-> 0]
        ELSE LET largest == largest_exponent_of_base(ty, 1, base)
                 all == <<0>> \o successors(n.val, largest, base)
             IN  [digits |-> skip_while_zero([i \in 1 .. Len(all) |-> as_usize(all[i])]),
                  ok |-> TRUE, power |-> largest]

(***************************************************************************)
(* Glyph tables of Superscript and Subscript (Unicode code points).        *)
(***************************************************************************)
SuperscriptDigits == <<8304, 185, 178, 179, 8308, 8309, 8310, 8311, 8312, 8313>>

SuperscriptPlus == 8314

SuperscriptMinus == 8315

SubscriptDigits == <<8320, 8321, 8322, 8323, 8324, 8325, 8326, 8327, 8328, 8329>>

SubscriptPlus == 8330

SubscriptMinus == 8331

\* The formatter's sign flag: format strings carry at most one of `+`, `-`.
SignFlags == {"none", "plus", "minus"}

\* Writes the glyph of every digit in turn; an index outside the table panics
\* after the glyphs before it have been written.
RECURSIVE write_digits(_, _)
write_digits(ds, table) ==
    IF ds = <<>> THEN [out |-> <<>>, ok |-> TRUE]
    ELSE IF Head(ds) >= Len(table) THEN [out |-> <<>>, ok |-> FALSE]
    ELSE LET rest == write_digits(Tail(ds), table)
         IN  [out |-> <<table[Head(ds) + 1]>> \o rest.out, ok |-> rest.ok]

fmt_number_with_base_and_digits(ty, n, sign_plus, plus, minus, table, checks) ==
    LET s == sign(ty, n)
        prefix == IF s = "Positive" /\ sign_plus THEN <<plus>>
                  ELSE IF s = "Negative" THEN <<minus>>
                  ELSE <<>>
    IN  IF n = 0 THEN [out |-> prefix \o <<table[1]>>, ok |-> TRUE]
        ELSE LET it == sub_iter_digits(ty, n, Len(table), checks)
             IN  IF ~it.ok THEN [out |-> prefix, ok |-> FALSE]
                 ELSE LET w == write_digits(it.digits, table)
                      IN  [out |-> prefix \o w.out, ok |-> w.ok]

SuperscriptFmt(ty, n, sign_plus, checks) ==
    fmt_number_with_base_and_digits(ty, n, sign_plus, SuperscriptPlus, SuperscriptMinus,
                                    SuperscriptDigits, checks)

SuperscriptFmtBinary(ty, n, sign_plus, checks) ==
    fmt_number_with_base_and_digits(ty, n, sign_plus, SuperscriptPlus, SuperscriptMinus,
                                    SubSeq(SuperscriptDigits, 1, 2), checks)

SubscriptFmt(ty, n, sign_plus, checks) ==
    fmt_number_with_base_and_digits(ty, n, sign_plus, SubscriptPlus, SubscriptMinus,
                                    SubscriptDigits, checks)

SubscriptFmtBinary(ty, n, sign_plus, checks) ==
    fmt_number_with_base_and_digits(ty, n, sign_plus, SubscriptPlus, SubscriptMinus,
                                    SubSeq(SubscriptDigits, 1, 2), checks)

(***************************************************************************)
(* fraction.rs: the single character fractions and VulgarFraction's        *)
(* Display.                                                                *)
(***************************************************************************)
\* The match without its zero-thirds arm.
FractionArms_WithoutZeroThirds ==
    << <<1, 4, 188>>,  <<1, 2, 189>>,  <<3, 4, 190>>,  <<1, 7, 8528>>,
       <<1, 9, 8529>>, <<1, 10, 8530>>, <<1, 3, 8531>>, <<2, 3, 8532>>,
       <<1, 5, 8533>>, <<2, 5, 8534>>, <<3, 5, 8535>>, <<4, 5, 8536>>,
       <<1, 6, 8537>>, <<5, 6, 8538>>, <<1, 8, 8539>>, <<3, 8, 8540>>,
       <<5, 8, 8541>>, <<7, 8, 8542>> >>

\* The arms of the match in find_single_character_fraction, in source order:
\* <<numerator, denominator, code point>>.
FractionArms ==
    << <<1, 4, 188>>,  <<1, 2, 189>>,  <<3, 4, 190>>,  <<1, 7, 8528>>,
       <<1, 9, 8529>>, <<1, 10, 8530>>, <<1, 3, 8531>>, <<2, 3, 8532>>,
       <<1, 5, 8533>>, <<2, 5, 8534>>, <<3, 5, 8535>>, <<4, 5, 8536>>,
       <<1, 6, 8537>>, <<5, 6, 8538>>, <<1, 8, 8539>>, <<3, 8, 8540>>,
       <<5, 8, 8541>>, <<7, 8, 8542>>, <<0, 3, 8585>> >>

\* TryInto<u8>: the value when it lies in 0 ..= 255.
try_into_u8(x) ==
    IF 0 <= x /\ x <= 255 THEN [val |-> x, ok |-> TRUE] ELSE [val |-> 0, ok |-> FALSE]

\* The first arm that matches, from arm i on; <<>> is None, <<c>> is Some(c).
RECURSIVE match_arm(_, _, _)
match_arm(i, num, den) ==
    IF i > Len(FractionArms) THEN <<>>
    ELSE IF FractionArms[i][1] = num /\ FractionArms[i][2] = den THEN <<FractionArms[i][3]>>
    ELSE match_arm(i + 1, num, den)

find_single_character_fraction(numerator, denominator) ==
    LET num == try_into_u8(numerator)
        den == try_into_u8(denominator)
    IN  IF ~num.ok THEN <<>>
        ELSE IF ~den.ok THEN <<>>
        ELSE match_arm(1, num.val, den.val)

FRACTION_SLASH == 8260

AsciiPlus == 43

AsciiMinus == 45

signum(x) == IF x > 0 THEN 1 ELSE IF x < 0 THEN -1 ELSE 0

\* The sign written in front of the fraction (signed types only): <<>> when
\* there is none.
outside_sign(ty, numerator, denominator, flag) ==
    LET s == signum(numerator) * signum(denominator)
    IN  IF ~IsSigned(ty) THEN <<>>
        ELSE IF s >= 0 /\ flag = "plus" THEN <<AsciiPlus>>
        ELSE IF s < 0 /\ flag = "minus" THEN <<AsciiMinus>>
        ELSE <<>>

\* The operands after the sign handling: their absolute values when a sign was
\* written outside, the operands as given when not.
local_operands(ty, numerator, denominator, flag, checks) ==
    IF outside_sign(ty, numerator, denominator, flag) = <<>>
    THEN [numerator |-> numerator, denominator |-> denominator, ok |-> TRUE]
    ELSE LET a == abs(ty, numerator, checks)
             b == abs(ty, denominator, checks)
         IN  [numerator |-> a.val, denominator |-> b.val, ok |-> a.ok /\ b.ok]

\* The else branch: Superscript(numerator), the fraction slash,
\* Subscript(denominator), each written with default flags.
composite_form(ty, numerator, denominator, checks) ==
    LET sup == SuperscriptFmt(ty, numerator, FALSE, checks)
        sub == SubscriptFmt(ty, denominator, FALSE, checks)
    IN  IF ~sup.ok THEN [out |-> sup.out, ok |-> FALSE]
        ELSE [out |-> sup.out \o <<FRACTION_SLASH>> \o sub.out, ok |-> sub.ok]

VulgarFractionFmt(ty, numerator, denominator, flag, alternate, checks) ==
    LET sgn == outside_sign(ty, numerator, denominator, flag)
        ops == local_operands(ty, numerator, denominator, flag, checks)
    IN  IF ~ops.ok THEN [out |-> sgn, ok |-> FALSE]
        ELSE LET frac == IF ~alternate
                         THEN find_single_character_fraction(ops.numerator, ops.denominator)
                         ELSE <<>>
             IN  IF frac # <<>> THEN [out |-> sgn \o frac, ok |-> TRUE]
                 ELSE LET body == composite_form(ty, ops.numerator, ops.denominator, checks)
                      IN  [out |-> sgn \o body.out, ok |-> body.ok]

(***************************************************************************)
(* roman.rs: Roman numerals of the unsigned types.                         *)
(***************************************************************************)
UnsignedTypes == {"u8", "u16"}

\* RomanInteger::ROMAN_MAX: u8::MAX for u8, 3999 for the wider types.
ROMAN_MAX(ty) == IF ty = "u8" THEN TypeMax("u8") ELSE 3999

\* ROMAN_PAIRS, in source order: <<upper_unicode, lower_unicode, upper_ascii,
\* lower_ascii, value>>, every symbol a string of code points.
ROMAN_PAIRS ==
    << << <<8559>>, <<8575>>, <<77>>, <<109>>, 1000 >>,
       << <<8557, 8559>>, <<8573, 8575>>, <<67, 77>>, <<99, 109>>, 900 >>,
       << <<8558>>, <<8574>>, <<68>>, <<100>>, 500 >>,
       << <<8557, 8558>>, <<8573, 8574>>, <<67, 68>>, <<99, 100>>, 400 >>,
       << <<8557>>, <<8573>>, <<67>>, <<99>>, 100 >>,
       << <<8553, 8557>>, <<8569, 8573>>, <<88, 67>>, <<120, 99>>, 90 >>,
       << <<8556>>, <<8572>>, <<76>>, <<108>>, 50 >>,
       << <<8553, 8556>>, <<8569, 8572>>, <<88, 76>>, <<120, 108>>, 40 >>,
       << <<8553>>, <<8569>>, <<88>>, <<120>>, 10 >>,
       << <<8544, 8553>>, <<8560, 8569>>, <<73, 88>>, <<105, 120>>, 9 >>,
       << <<8548>>, <<8564>>, <<86>>, <<118>>, 5 >>,
       << <<8544, 8548>>, <<8560, 8564>>, <<73, 86>>, <<105, 118>>, 4 >>,
       << <<8544>>, <<8560>>, <<73>>, <<105>>, 1 >> >>

Repertoires == {"Unicode", "Ascii"}

\* Roman::new with the upper limit excluded.
Roman_new_ExclusiveMax(ty, value) ==
    IF 0 < value /\ value < ROMAN_MAX(ty)
    THEN << [value |-> value, repertoire |-> "Unicode"] >>
    ELSE <<>>

\* Roman::new: Some(Roman(value, Unicode)) when 0 < value <= ROMAN_MAX.
Roman_new(ty, value) ==
    IF 0 < value /\ value <= ROMAN_MAX(ty)
    THEN << [value |-> value, repertoire |-> "Unicode"] >>
    ELSE <<>>

\* From<u8> for Roman<u8>.
Roman_from(value) == << [value |-> value, repertoire |-> "Unicode"] >>

\* Roman::ascii.
Roman_ascii(r) == [r EXCEPT !.repertoire = "Ascii"]

\* The column of ROMAN_PAIRS the match of roman_pairs selects.
symbol_column(repertoire, lowercase) ==
    IF repertoire = "Unicode" THEN (IF lowercase THEN 2 ELSE 1)
    ELSE (IF lowercase THEN 4 ELSE 3)

\* roman_pairs::<T>: the pairs <<symbol, value>> of the entries whose value
\* converts to T (filter_map drops the others), from entry i on.
RECURSIVE roman_pairs_from(_, _, _, _)
roman_pairs_from(i, ty, repertoire, lowercase) ==
    IF i > Len(ROMAN_PAIRS) THEN <<>>
    ELSE LET entry == ROMAN_PAIRS[i]
             rest  == roman_pairs_from(i + 1, ty, repertoire, lowercase)
         IN  IF InType(ty, entry[5])
             THEN << <<entry[symbol_column(repertoire, lowercase)], entry[5]>> >> \o rest
             ELSE rest

roman_pairs(ty, repertoire, lowercase) == roman_pairs_from(1, ty, repertoire, lowercase)

\* The loop with `if n >= value` in place of `while n >= value`.
RECURSIVE roman_loop_Once(_, _, _)
roman_loop_Once(pairs, i, n) ==
    IF i > Len(pairs) THEN [out |-> <<>>, emitted |-> <<>>, n |-> n]
    ELSE IF n >= pairs[i][2]
    THEN LET rest == roman_loop_Once(pairs, i + 1, n - pairs[i][2])
         IN  [out |-> pairs[i][1] \o rest.out,
              emitted |-> <<pairs[i][2]>> \o rest.emitted,
              n |-> rest.n]
    ELSE roman_loop_Once(pairs, i + 1, n)

\* The for loop over the pairs with its inner `while n >= value`.
RECURSIVE roman_loop(_, _, _)
roman_loop(pairs, i, n) ==
    IF i > Len(pairs) THEN [out |-> <<>>, emitted |-> <<>>, n |-> n]
    ELSE IF n >= pairs[i][2]
    THEN LET rest == roman_loop(pairs, i, n - pairs[i][2])
         IN  [out |-> pairs[i][1] \o rest.out,
              emitted |-> <<pairs[i][2]>> \o rest.emitted,
              n |-> rest.n]
    ELSE roman_loop(pairs, i + 1, n)

\* Display for Roman.  debug_assert!(n == 0) panics in a build with debug
\* assertions (`checks`) when something is left of n.
RomanFmt(ty, r, alternate, checks) ==
    LET l == roman_loop(roman_pairs(ty, r.repertoire, alternate), 1, r.value)
    IN  [out |-> l.out, emitted |-> l.emitted, n |-> l.n,
         ok |-> ~(checks /\ l.n # 0)]

(***************************************************************************)
(* tally_marks.rs: Display for TallyMarks.                                 *)
(***************************************************************************)
TALLY_MARK_ONE == 119671

TALLY_MARK_FIVE == 119672

\* The counting loop with `iteration <= fives` as its condition.
RECURSIVE tally_fives_Inclusive(_, _, _, _)
tally_fives_Inclusive(ty, fives, it, checks) ==
    IF ~(it <= fives) THEN [out |-> <<>>, iteration |-> it, ok |-> TRUE]
    ELSE IF ~InType(ty, it + 1)
    THEN [out |-> <<TALLY_MARK_FIVE>>, iteration |-> Wrap(ty, it + 1), ok |-> FALSE]
    ELSE LET rest == tally_fives_Inclusive(ty, fives, it + 1, checks)
         IN  [out |-> <<TALLY_MARK_FIVE>> \o rest.out,
              iteration |-> rest.iteration, ok |-> rest.ok]

\* `while iteration < fives { write FIVE; iteration += ONE }`.  An addition
\* that leaves the type panics in a build with overflow checks and starts the
\* counter again from the wrapped value in one without: the loop then has not
\* ended, which the result reports as not ok with the wrapped counter.
RECURSIVE tally_fives(_, _, _, _)
tally_fives(ty, fives, it, checks) ==
    IF ~(it < fives) THEN [out |-> <<>>, iteration |-> it, ok |-> TRUE]
    ELSE IF ~InType(ty, it + 1)
    THEN [out |-> <<TALLY_MARK_FIVE>>, iteration |-> Wrap(ty, it + 1), ok |-> FALSE]
    ELSE LET rest == tally_fives(ty, fives, it + 1, checks)
         IN  [out |-> <<TALLY_MARK_FIVE>> \o rest.out,
              iteration |-> rest.iteration, ok |-> rest.ok]

\* `for _ in 0..ones.as_usize() { write ONE }`.
tally_ones(ones) == [i \in 1 .. as_usize(ones) |-> TALLY_MARK_ONE]

TallyMarksFmt(ty, n, checks) ==
    LET five  == 5
        fives == TDiv(n, five)
        ones  == TRem(n, five)
        loop  == tally_fives(ty, fives, 0, checks)
    IN  IF ~loop.ok THEN [out |-> loop.out, iteration |-> loop.iteration, ok |-> FALSE]
        ELSE [out |-> loop.out \o tally_ones(ones), iteration |-> loop.iteration,
              ok |-> TRUE]

(***************************************************************************)
(* seven_segment.rs: Segmented, over utils::iter_digits.                   *)
(***************************************************************************)
SegmentedDigits ==
    <<130032, 130033, 130034, 130035, 130036, 130037, 130038, 130039, 130040, 130041>>

\* The formatting without the `self.0 == T::ZERO` branch.
SegmentedFmt_WithoutZeroBranch(ty, n, b, checks) ==
    LET it == utils_iter_digits(ty, b, n, checks)
    IN  IF ~it.ok THEN [out |-> <<>>, ok |-> FALSE]
        ELSE write_digits(it.digits, SegmentedDigits)

\* Binary (b = 2) and Display (b = 10) for Segmented.
SegmentedFmt(ty, n, b, checks) ==
    IF n = 0 THEN [out |-> <<SegmentedDigits[1]>>, ok |-> TRUE]
    ELSE LET it == utils_iter_digits(ty, b, n, checks)
         IN  IF ~it.ok THEN [out |-> <<>>, ok |-> FALSE]
             ELSE write_digits(it.digits, SegmentedDigits)

(***************************************************************************)
(* outlined.rs: Outlined, over the digit engine of crate::digits and the   *)
(* base descriptors of crate::integer (binary, decimal, hexadecimal).      *)
(* That engine is written from the specification of the Base Descriptor    *)
(* (the integer logarithm is 0 for zero) and of the Digit Decomposition    *)
(* Engine (zero gives the single digit 0; otherwise remainder / power is   *)
(* emitted and the remainder reduced to remainder % power, from the        *)
(* highest power not exceeding the magnitude down to 1).                   *)
(***************************************************************************)
BaseSixteen == 16

OutlinedBases == Bases \cup {BaseSixteen}

digits_ilog(b, x) == IF x = 0 THEN 0 ELSE ILogPos(b, x)

RECURSIVE DigitsScan(_, _, _)
DigitsScan(b, rem, exp) ==
    LET pw    == MathPow(b, exp)
        digit == rem \div pw
    IN  IF exp = 0 THEN <<digit>>
        ELSE <<digit>> \o DigitsScan(b, rem % pw, exp - 1)

digits_iter_digits(b, n) ==
    LET m == IF n < 0 THEN -n ELSE n
    IN  IF m = 0 THEN <<0>> ELSE DigitsScan(b, m, digits_ilog(b, m))

OutlinedDigits ==
    <<118000, 118001, 118002, 118003, 118004, 118005, 118006, 118007, 118008, 118009,
      117974, 117975, 117976, 117977, 117978, 117979>>

\* fmt_outlined: every digit of the engine indexes DIGITS; there is no branch
\* for zero.
fmt_outlined(b, n) == write_digits(digits_iter_digits(b, n), OutlinedDigits)

(***************************************************************************)
(* Inputs.                                                                 *)
(***************************************************************************)
RomanInputs(ty) ==
    IF ty = "u8" THEN TypeMin(ty) .. TypeMax(ty)
    ELSE (0 .. (ROMAN_MAX(ty) + 2)) \cup {TypeMax(ty) - 1, TypeMax(ty)}

Operands(ty) ==
    { v \in ((-MaxOperand) .. MaxOperand) \cup {255, 256}
            \cup {TypeMin(ty), TypeMin(ty) + 1, TypeMax(ty)}
        : InType(ty, v) }

Values(ty) ==
    IF Bits(ty) = 8 THEN TypeMin(ty) .. TypeMax(ty)
    ELSE { v \in ((-MaxSmall) .. MaxSmall) \cup (254 .. 257) \cup (998 .. 1001)
                 \cup (9999 .. 10001) \cup (16383 .. 16385)
                 \cup {TypeMin(ty), TypeMin(ty) + 1, TypeMax(ty) - 1, TypeMax(ty)}
                 \cup {32767, 32768, 32769}
             : InType(ty, v) }

\* The unsigned values TallyMarks, Segmented and Outlined are given.
UnsignedValues(ty) == {x \in Values(ty) : x >= 0}

\* The values TallyMarks is given: every u8, and the u16 up to 257 (the loop
\* runs once per group of five).
TallyInputs(ty) == {x \in UnsignedValues(ty) : x <= 257}

NoCall == [op |-> "none", ty |-> "u8", n |-> 0, d |-> 0, base |-> 10,
           flag |-> "none", alt |-> FALSE, checks |-> FALSE]

Init ==
    /\ pc = "idle"
    /\ call = NoCall
    /\ out = <<>>
    /\ digits = <<>>
    /\ found = <<>>
    /\ panicked = FALSE
    /\ roman = <<>>
    /\ emitted = <<>>
    /\ leftover = 0
    /\ iteration = 0
    /\ steps = <<>>
    /\ power = 0

\* A call of utils::iter_digits::<T, B>(n), its iterator collected.
UtilsIterDigits ==
    /\ pc = "idle"
    /\ \E ty \in Types, b \in Bases, checks \in BOOLEAN :
      \E x \in Values(ty) :
        LET r == utils_iter_digits(ty, b, x, checks)
        IN  /\ pc' = "done"
            /\ steps' = r.steps
            /\ UNCHANGED <<romanVars, iteration, power>>
            /\ call' = [NoCall EXCEPT !.op = "utils_iter_digits", !.ty = ty, !.n = x,
                                      !.base = b, !.checks = checks]
            /\ digits' = r.digits
            /\ panicked' = ~r.ok
            /\ out' = <<>>
            /\ found' = <<>>

\* A call of sub_superscript::iter_digits(n, base), its iterator collected.
SubSuperIterDigits ==
    /\ pc = "idle"
    /\ \E ty \in Types, b \in Bases, checks \in BOOLEAN :
      \E x \in Values(ty) :
        LET r == sub_iter_digits(ty, x, b, checks)
        IN  /\ pc' = "done"
            /\ power' = r.power
            /\ UNCHANGED <<romanVars, iteration, steps>>
            /\ call' = [NoCall EXCEPT !.op = "sub_iter_digits", !.ty = ty, !.n = x,
                                      !.base = b, !.checks = checks]
            /\ digits' = r.digits
            /\ panicked' = ~r.ok
            /\ out' = <<>>
            /\ found' = <<>>

\* format!("{}", Superscript(n)), with or without a sign flag.
SuperscriptDisplay ==
    /\ pc = "idle"
    /\ \E ty \in Types, flag \in SignFlags, checks \in BOOLEAN :
      \E x \in Values(ty) :
        LET r == SuperscriptFmt(ty, x, flag = "plus", checks)
        IN  /\ pc' = "done"
            /\ UNCHANGED <<romanVars, loopVars>>
            /\ call' = [NoCall EXCEPT !.op = "superscript", !.ty = ty, !.n = x,
                                      !.base = 10, !.flag = flag, !.checks = checks]
            /\ out' = r.out
            /\ panicked' = ~r.ok
            /\ digits' = <<>>
            /\ found' = <<>>

\* format!("{:b}", Superscript(n)).
SuperscriptBinary ==
    /\ pc = "idle"
    /\ \E ty \in Types, flag \in SignFlags, checks \in BOOLEAN :
      \E x \in Values(ty) :
        LET r == SuperscriptFmtBinary(ty, x, flag = "plus", checks)
        IN  /\ pc' = "done"
            /\ UNCHANGED <<romanVars, loopVars>>
            /\ call' = [NoCall EXCEPT !.op = "superscript", !.ty = ty, !.n = x,
                                      !.base = 2, !.flag = flag, !.checks = checks]
            /\ out' = r.out
            /\ panicked' = ~r.ok
            /\ digits' = <<>>
            /\ found' = <<>>

\* format!("{}", Subscript(n)).
SubscriptDisplay ==
    /\ pc = "idle"
    /\ \E ty \in Types, flag \in SignFlags, checks \in BOOLEAN :
      \E x \in Values(ty) :
        LET r == SubscriptFmt(ty, x, flag = "plus", checks)
        IN  /\ pc' = "done"
            /\ UNCHANGED <<romanVars, loopVars>>
            /\ call' = [NoCall EXCEPT !.op = "subscript", !.ty = ty, !.n = x,
                                      !.base = 10, !.flag = flag, !.checks = checks]
            /\ out' = r.out
            /\ panicked' = ~r.ok
            /\ digits' = <<>>
            /\ found' = <<>>

\* format!("{:b}", Subscript(n)).
SubscriptBinary ==
    /\ pc = "idle"
    /\ \E ty \in Types, flag \in SignFlags, checks \in BOOLEAN :
      \E x \in Values(ty) :
        LET r == SubscriptFmtBinary(ty, x, flag = "plus", checks)
        IN  /\ pc' = "done"
            /\ UNCHANGED <<romanVars, loopVars>>
            /\ call' = [NoCall EXCEPT !.op = "subscript", !.ty = ty, !.n = x,
                                      !.base = 2, !.flag = flag, !.checks = checks]
            /\ out' = r.out
            /\ panicked' = ~r.ok
            /\ digits' = <<>>
            /\ found' = <<>>

\* A call of find_single_character_fraction(numerator, denominator).
FindSingleCharacterFraction ==
    /\ pc = "idle"
    /\ \E ty \in Types :
      \E x \in Operands(ty), y \in Operands(ty) :
        /\ pc' = "done"
        /\ UNCHANGED <<romanVars, loopVars>>
        /\ call' = [NoCall EXCEPT !.op = "find_fraction", !.ty = ty, !.n = x, !.d = y]
        /\ found' = find_single_character_fraction(x, y)
        /\ panicked' = FALSE
        /\ out' = <<>>
        /\ digits' = <<>>

\* format!("{}", VulgarFraction::new(numerator, denominator)) with any of the
\* flags `+`, `-`, `#`.
VulgarFractionDisplay ==
    /\ pc = "idle"
    /\ \E ty \in Types, flag \in SignFlags, alternate \in BOOLEAN, checks \in BOOLEAN :
      \E x \in Operands(ty), y \in Operands(ty) :
        LET r == VulgarFractionFmt(ty, x, y, flag, alternate, checks)
        IN  /\ pc' = "done"
            /\ UNCHANGED <<romanVars, loopVars>>
            /\ call' = [NoCall EXCEPT !.op = "fraction", !.ty = ty, !.n = x, !.d = y,
                                      !.flag = flag, !.alt = alternate, !.checks = checks]
            /\ out' = r.out
            /\ panicked' = ~r.ok
            /\ digits' = <<>>
            /\ found' = <<>>

\* Roman::new(value): a Roman value to hold, or None.
RomanNew ==
    /\ pc = "idle"
    /\ \E ty \in UnsignedTypes :
      \E v \in RomanInputs(ty) :
        LET r == Roman_new(ty, v)
        IN  /\ pc' = IF r = <<>> THEN "done" ELSE "held"
            /\ call' = [NoCall EXCEPT !.op = "roman_new", !.ty = ty, !.n = v]
            /\ roman' = r
            /\ UNCHANGED <<out, digits, found, panicked, emitted, leftover, loopVars>>

\* Roman::from(value) for a u8.
RomanFromU8 ==
    /\ pc = "idle"
    /\ \E v \in RomanInputs("u8") :
        /\ pc' = "held"
        /\ call' = [NoCall EXCEPT !.op = "roman_from", !.ty = "u8", !.n = v]
        /\ roman' = Roman_from(v)
        /\ UNCHANGED <<out, digits, found, panicked, emitted, leftover, loopVars>>

\* .ascii() on the Roman value held.
RomanAscii ==
    /\ pc = "held"
    /\ roman' = << Roman_ascii(roman[1]) >>
    /\ UNCHANGED <<pc, call, out, digits, found, panicked, emitted, leftover, loopVars>>

\* format!("{}", roman) or format!("{:#}", roman) of the Roman value held.
RomanDisplay ==
    /\ pc = "held"
    /\ \E alternate \in BOOLEAN, checks \in BOOLEAN :
        LET r == RomanFmt(call.ty, roman[1], alternate, checks)
        IN  /\ pc' = "done"
            /\ call' = [call EXCEPT !.alt = alternate, !.checks = checks]
            /\ out' = r.out
            /\ emitted' = r.emitted
            /\ leftover' = r.n
            /\ panicked' = ~r.ok
            /\ UNCHANGED <<roman, digits, found, loopVars>>

\* format!("{}", TallyMarks(n)).
TallyMarksDisplay ==
    /\ pc = "idle"
    /\ \E ty \in UnsignedTypes, checks \in BOOLEAN :
      \E x \in TallyInputs(ty) :
        LET r == TallyMarksFmt(ty, x, checks)
        IN  /\ pc' = "done"
            /\ call' = [NoCall EXCEPT !.op = "tally_marks", !.ty = ty, !.n = x,
                                      !.checks = checks]
            /\ out' = r.out
            /\ iteration' = r.iteration
            /\ panicked' = ~r.ok
            /\ UNCHANGED <<romanVars, digits, found, steps, power>>

\* format!("{}", Segmented(n)).
SegmentedDisplay ==
    /\ pc = "idle"
    /\ \E ty \in UnsignedTypes, checks \in BOOLEAN :
      \E x \in UnsignedValues(ty) :
        LET r == SegmentedFmt(ty, x, 10, checks)
        IN  /\ pc' = "done"
            /\ call' = [NoCall EXCEPT !.op = "segmented", !.ty = ty, !.n = x,
                                      !.base = 10, !.checks = checks]
            /\ out' = r.out
            /\ panicked' = ~r.ok
            /\ UNCHANGED <<romanVars, loopVars, digits, found>>

\* format!("{:b}", Segmented(n)).
SegmentedBinary ==
    /\ pc = "idle"
    /\ \E ty \in UnsignedTypes, checks \in BOOLEAN :
      \E x \in UnsignedValues(ty) :
        LET r == SegmentedFmt(ty, x, 2, checks)
        IN  /\ pc' = "done"
            /\ call' = [NoCall EXCEPT !.op = "segmented", !.ty = ty, !.n = x,
                                      !.base = 2, !.checks = checks]
            /\ out' = r.out
            /\ panicked' = ~r.ok
            /\ UNCHANGED <<romanVars, loopVars, digits, found>>

\* format!("{}", Outlined(n)): fmt_outlined with BaseTen on the value that
\* into_impl hands over unchanged.
OutlinedDisplay ==
    /\ pc = "idle"
    /\ \E ty \in UnsignedTypes, checks \in BOOLEAN :
      \E x \in UnsignedValues(ty) :
        LET r == fmt_outlined(10, x)
        IN  /\ pc' = "done"
            /\ call' = [NoCall EXCEPT !.op = "outlined", !.ty = ty, !.n = x,
                                      !.base = 10, !.checks = checks]
            /\ out' = r.out
            /\ panicked' = ~r.ok
            /\ UNCHANGED <<romanVars, loopVars, digits, found>>

\* format!("{:b}", Outlined(n)): fmt_outlined with BaseTwo.
OutlinedBinary ==
    /\ pc = "idle"
    /\ \E ty \in UnsignedTypes, checks \in BOOLEAN :
      \E x \in UnsignedValues(ty) :
        LET r == fmt_outlined(2, x)
        IN  /\ pc' = "done"
            /\ call' = [NoCall EXCEPT !.op = "outlined", !.ty = ty, !.n = x,
                                      !.base = 2, !.checks = checks]
            /\ out' = r.out
            /\ panicked' = ~r.ok
            /\ UNCHANGED <<romanVars, loopVars, digits, found>>

\* format!("{:X}", Outlined(n)): fmt_outlined with BaseSixteen.
OutlinedUpperHex ==
    /\ pc = "idle"
    /\ \E ty \in UnsignedTypes, checks \in BOOLEAN :
      \E x \in UnsignedValues(ty) :
        LET r == fmt_outlined(BaseSixteen, x)
        IN  /\ pc' = "done"
            /\ call' = [NoCall EXCEPT !.op = "outlined", !.ty = ty, !.n = x,
                                      !.base = BaseSixteen, !.checks = checks]
            /\ out' = r.out
            /\ panicked' = ~r.ok
            /\ UNCHANGED <<romanVars, loopVars, digits, found>>

\* The call is over; nothing of it is kept.
Return ==
    /\ pc = "done"
    /\ pc' = "idle"
    /\ call' = NoCall
    /\ out' = <<>>
    /\ digits' = <<>>
    /\ found' = <<>>
    /\ panicked' = FALSE
    /\ roman' = <<>>
    /\ emitted' = <<>>
    /\ leftover' = 0
    /\ iteration' = 0
    /\ steps' = <<>>
    /\ power' = 0

Next ==
    \/ UtilsIterDigits
    \/ SubSuperIterDigits
    \/ SuperscriptDisplay
    \/ SuperscriptBinary
    \/ SubscriptDisplay
    \/ SubscriptBinary
    \/ FindSingleCharacterFraction
    \/ VulgarFractionDisplay
    \/ RomanNew
    \/ RomanFromU8
    \/ RomanAscii
    \/ RomanDisplay
    \/ TallyMarksDisplay
    \/ SegmentedDisplay
    \/ SegmentedBinary
    \/ OutlinedDisplay
    \/ OutlinedBinary
    \/ OutlinedUpperHex
    \/ Return

Spec == Init /\ [][Next]_vars

(***************************************************************************)
(* Reference notions the properties are stated with.  They are written     *)
(* with unbounded integers and do not use the engines' code.               *)
(***************************************************************************)
Magnitude(x) == IF x < 0 THEN -x ELSE x

\* Sum over i of d_i * radix^(k-1-i).
RECURSIVE DigitSum(_, _)
DigitSum(ds, radix) ==
    IF ds = <<>> THEN 0
    ELSE Head(ds) * MathPow(radix, Len(ds) - 1) + DigitSum(Tail(ds), radix)

Done(op) == pc = "done" /\ call.op = op

IsSubSuper == pc = "done" /\ call.op \in {"superscript", "subscript"}

MinusGlyph == IF call.op = "superscript" THEN SuperscriptMinus ELSE SubscriptMinus

PlusGlyph == IF call.op = "superscript" THEN SuperscriptPlus ELSE SubscriptPlus

ZeroGlyph == IF call.op = "superscript" THEN SuperscriptDigits[1] ELSE SubscriptDigits[1]

StartsWith(seq, g) == seq # <<>> /\ seq[1] = g

Contains(seq, g) == \E i \in 1 .. Len(seq) : seq[i] = g

(***************************************************************************)
(* C1.  For every magnitude m >= 0 (m = 0 included) and every radix,       *)
(* utils::iter_digits(m) produces digits d_0 .. d_(k-1) with               *)
(* sum d_i * radix^(k-1-i) = m.                                            *)
(***************************************************************************)
C1_DigitsReconstructMagnitude ==
    (Done("utils_iter_digits") /\ call.n >= 0)
        => (~panicked /\ DigitSum(digits, call.base) = call.n)

(***************************************************************************)
(* C2.  For the input zero utils::iter_digits returns normally and yields  *)
(* exactly the sequence [0], in every radix.                               *)
(***************************************************************************)
C2_ZeroYieldsSingleZero ==
    (Done("utils_iter_digits") /\ call.n = 0)
        => (~panicked /\ digits = <<0>>)

(***************************************************************************)
(* C3.  For every nonzero value whose magnitude m the type can hold and    *)
(* every radix, utils::iter_digits yields exactly floor(log_radix m) + 1   *)
(* digits (k digits with radix^(k-1) <= m < radix^k), most significant     *)
(* first, and the first digit is not zero.                                 *)
(***************************************************************************)
C3_DigitCountAndNoLeadingZero ==
    (Done("utils_iter_digits") /\ call.n # 0 /\ InType(call.ty, Magnitude(call.n)))
        => LET m == Magnitude(call.n)
               k == Len(digits)
           IN  /\ ~panicked
               /\ k >= 1
               /\ MathPow(call.base, k - 1) <= m
               /\ m < MathPow(call.base, k)
               /\ digits[1] # 0
               /\ DigitSum(digits, call.base) = m

C3_Witness ==
    /\ Done("utils_iter_digits")
    /\ call.ty = "i8" /\ call.n = -100 /\ call.base = 10
    /\ digits = <<1, 0, 0>>
    /\ ~panicked

(***************************************************************************)
(* C4.  Superscript / Subscript formatting is total: for every value of    *)
(* every integer type, the minimum of a signed type included, in base 2    *)
(* and base 10, the call returns a result.                                 *)
(***************************************************************************)
C4_SubSuperscriptTotal ==
    IsSubSuper => ~panicked

(***************************************************************************)
(* C5.  For Superscript and Subscript, in decimal and binary and for any   *)
(* flag: what is written starts with the format's minus glyph if and only  *)
(* if the value is strictly negative; zero is written as the zero glyph,   *)
(* with at most a plus glyph in front.                                     *)
(***************************************************************************)
C5_MinusIffNegative ==
    IsSubSuper =>
        /\ StartsWith(out, MinusGlyph) <=> call.n < 0
        /\ call.n = 0 => /\ ~panicked
                         /\ out \in {<<ZeroGlyph>>, <<PlusGlyph, ZeroGlyph>>}

C5_Witness ==
    /\ Done("subscript")
    /\ call.n = -5 /\ call.flag = "none" /\ call.base = 2
    /\ out = <<SubscriptMinus, SubscriptDigits[2], SubscriptDigits[1], SubscriptDigits[2]>>
    /\ ~panicked

(***************************************************************************)
(* C6.  With the sign-plus flag Superscript and Subscript write a leading  *)
(* plus glyph for every value that is positive or zero, of signed and      *)
(* unsigned types alike; without the flag no plus glyph is written.        *)
(***************************************************************************)
C6_PlusForPositiveOrZero ==
    IsSubSuper =>
        /\ (call.flag = "plus" /\ call.n >= 0) => StartsWith(out, PlusGlyph)
        /\ call.flag # "plus" => ~Contains(out, PlusGlyph)

(***************************************************************************)
(* Reference notions for the fraction properties.                          *)
(***************************************************************************)
RECURSIVE Decimal(_)
Decimal(m) == IF m < 10 THEN <<m>> ELSE Decimal(m \div 10) \o <<m % 10>>

Glyphs(ds, table) == [i \in 1 .. Len(ds) |-> table[ds[i] + 1]]

\* The superscript / subscript rendering of a value: the minus glyph of the
\* format when the value is negative, then the decimal digits of its magnitude.
SupText(x) ==
    (IF x < 0 THEN <<SuperscriptMinus>> ELSE <<>>) \o Glyphs(Decimal(Magnitude(x)), SuperscriptDigits)

SubText(x) ==
    (IF x < 0 THEN <<SubscriptMinus>> ELSE <<>>) \o Glyphs(Decimal(Magnitude(x)), SubscriptDigits)

CompositeText(p) == SupText(p[1]) \o <<FRACTION_SLASH>> \o SubText(p[2])

EnumeratedPairs == { <<FractionArms[i][1], FractionArms[i][2]>> : i \in DOMAIN FractionArms }

FractionGlyphs == { FractionArms[i][3] : i \in DOMAIN FractionArms }

GlyphOf(p) ==
    FractionArms[CHOOSE i \in DOMAIN FractionArms :
                    <<FractionArms[i][1], FractionArms[i][2]>> = p][3]

FitsU8(x) == 0 <= x /\ x <= 255

Eligible(p) == FitsU8(p[1]) /\ FitsU8(p[2]) /\ p \in EnumeratedPairs

\* The combined sign s = signum(numerator) * signum(denominator) of the call.
CombinedSign == signum(call.n) * signum(call.d)

\* The sign the flags ask to be written in front of the fraction.
RefSign ==
    IF IsSigned(call.ty) /\ call.flag = "plus" /\ CombinedSign >= 0 THEN <<AsciiPlus>>
    ELSE IF IsSigned(call.ty) /\ call.flag = "minus" /\ CombinedSign < 0 THEN <<AsciiMinus>>
    ELSE <<>>

\* The operand pair the fraction body is formatted from: the magnitudes when
\* a sign is written in front, the operands as given when not.
RefPair ==
    IF RefSign = <<>> THEN <<call.n, call.d>>
    ELSE <<Magnitude(call.n), Magnitude(call.d)>>

RefFormatting(p, alternate) ==
    IF ~alternate /\ Eligible(p) THEN <<GlyphOf(p)>> ELSE CompositeText(p)

(***************************************************************************)
(* C7.  The lookup yields a single glyph only when both operands convert   *)
(* to u8 and the pair is one of the enumerated pairs; every other pair     *)
(* (an operand negative or >= 256, an unreduced pair such as (2, 4))       *)
(* yields no glyph and is rendered by Display in the composite form        *)
(* superscript(numerator) + fraction slash + subscript(denominator).       *)
(***************************************************************************)
C7_SingleGlyphOnlyForEnumeratedU8Pairs ==
    /\ Done("find_fraction") =>
          (found # <<>> <=> Eligible(<<call.n, call.d>>))
    /\ Done("fraction") =>
          /\ (\E i \in 1 .. Len(out) : out[i] \in FractionGlyphs) => Eligible(RefPair)
          /\ ~Eligible(RefPair) => (~panicked /\ out = RefSign \o CompositeText(RefPair))

(***************************************************************************)
(* C8.  With the alternate flag VulgarFraction never writes a single       *)
(* glyph: for every operand pair the body is superscript(numerator) +      *)
(* fraction slash + subscript(denominator); and for a pair with no single  *)
(* glyph the output is the same with and without the flag.                 *)
(***************************************************************************)
C8_AlternateAlwaysComposite ==
    Done("fraction") =>
        /\ call.alt => (~panicked /\ out = RefSign \o CompositeText(RefPair))
        /\ ~Eligible(RefPair) =>
              VulgarFractionFmt(call.ty, call.n, call.d, call.flag, TRUE, call.checks)
                = VulgarFractionFmt(call.ty, call.n, call.d, call.flag, FALSE, call.checks)

(***************************************************************************)
(* C9.  Sign placement for signed operands, s = signum(numerator) *        *)
(* signum(denominator): with sign-plus and s >= 0 the output is '+' then   *)
(* the formatting of (|numerator|, |denominator|); with sign-minus and     *)
(* s < 0 it is '-' then that formatting; in every other case no sign is    *)
(* written in front and the operands are rendered as given.                *)
(***************************************************************************)
C9_SignPlacement ==
    (Done("fraction") /\ IsSigned(call.ty)) =>
        /\ ~panicked
        /\ out = RefSign \o RefFormatting(RefPair, call.alt)

(***************************************************************************)
(* The operand pairs for which the lookup returns a glyph, among all pairs *)
(* of values from just below to just above the range of u8.                *)
(***************************************************************************)
LookupDomain == (-1) .. 256

GlyphPairs ==
    { p \in LookupDomain \X LookupDomain : find_single_character_fraction(p[1], p[2]) # <<>> }

CoveredFractions ==
    { <<1, 2>>, <<1, 3>>, <<2, 3>>, <<1, 4>>, <<3, 4>>, <<1, 5>>, <<2, 5>>, <<3, 5>>,
      <<4, 5>>, <<1, 6>>, <<5, 6>>, <<1, 7>>, <<1, 8>>, <<3, 8>>, <<5, 8>>, <<7, 8>>,
      <<1, 9>>, <<1, 10>>, <<0, 3>> }

\* Distinct pairs have distinct glyphs: there are as many glyphs as pairs.
DistinctGlyphs ==
    Cardinality({ find_single_character_fraction(p[1], p[2]) : p \in GlyphPairs })
        = Cardinality(GlyphPairs)

(***************************************************************************)
(* C10 as stated.  The set of operand pairs for which the lookup returns   *)
(* a glyph has exactly 18 members, covering halves to tenths and the       *)
(* zero-thirds pair (0, 3), and distinct pairs map to distinct glyphs.     *)
(***************************************************************************)
C10_EighteenGlyphPairs ==
    Done("find_fraction") =>
        /\ (found # <<>> => <<call.n, call.d>> \in GlyphPairs)
        /\ Cardinality(GlyphPairs) = 18
        /\ CoveredFractions \subseteq GlyphPairs
        /\ DistinctGlyphs

(***************************************************************************)
(* C10 as amended.  The set of operand pairs for which the lookup returns  *)
(* a glyph has exactly 19 members: the eighteen fractions from halves to   *)
(* tenths and the zero-thirds pair (0, 3); distinct pairs map to distinct  *)
(* glyphs.                                                                 *)
(***************************************************************************)
C10_NineteenGlyphPairs ==
    Done("find_fraction") =>
        /\ (found # <<>> <=> <<call.n, call.d>> \in GlyphPairs)
        /\ Cardinality(GlyphPairs) = 19
        /\ GlyphPairs = CoveredFractions
        /\ DistinctGlyphs

C10_Witness ==
    /\ Done("find_fraction")
    /\ call.n = 0 /\ call.d = 3
    /\ found = <<8585>>

(***************************************************************************)
(* Roman numerals.                                                         *)
(***************************************************************************)
\* A Roman value is held or has been formatted.
RomanOps == {"roman_new", "roman_from"}

RomanFormatted == pc = "done" /\ call.op \in RomanOps /\ roman # <<>>

\* The range the specification gives for a Roman value of the type.
RomanRange(ty) == IF ty = "u8" THEN 1 .. 255 ELSE 1 .. 3999

\* C11: Roman::new(v) returns a value exactly when 1 <= v <= 3999 for the
\* 16-bit type and exactly when 1 <= v <= 255 for the 8-bit type; the value
\* returned holds v, and a failed construction is only the absent result:
\* nothing panics and nothing is written.
C11_NewAcceptsExactlyTheRange ==
    call.op = "roman_new" =>
        /\ (roman # <<>>) <=> (call.n \in RomanRange(call.ty))
        /\ roman # <<>> => roman[1].value = call.n
        /\ roman = <<>> => pc = "done" /\ ~panicked /\ out = <<>>

C11_Witness ==
    /\ Done("roman_new") /\ call.ty = "u16" /\ call.n = 4000 /\ roman = <<>>

\* C12: every Roman value obtained through Roman::new or From<u8>, whatever
\* the number of ascii() calls, holds a value in [1, maximum] and formats to a
\* non-empty numeral.
C12_HeldRomanInRange ==
    (call.op \in RomanOps /\ roman # <<>>) =>
        /\ roman[1].value \in RomanRange(call.ty)
        /\ RomanFormatted => out # <<>>

\* The table values in descending order.
RomanValues == <<1000, 900, 500, 400, 100, 90, 50, 40, 10, 9, 5, 4, 1>>

\* The greatest table value that fits the type and is at most n.
GreatestEntry(ty, n) ==
    CHOOSE v \in {RomanValues[i] : i \in DOMAIN RomanValues} :
        /\ InType(ty, v) /\ v <= n
        /\ \A i \in DOMAIN RomanValues :
               (InType(ty, RomanValues[i]) /\ RomanValues[i] <= n) => RomanValues[i] <= v

\* The greedy decomposition of n over the table.
RECURSIVE RefGreedy(_, _)
RefGreedy(ty, n) ==
    IF n = 0 THEN <<>>
    ELSE LET v == GreatestEntry(ty, n) IN <<v>> \o RefGreedy(ty, n - v)

RECURSIVE SeqSum(_)
SeqSum(s) == IF s = <<>> THEN 0 ELSE Head(s) + SeqSum(Tail(s))

\* The symbol of the entry of value v in a repertoire and case.
RefSymbol(v, repertoire, lowercase) ==
    LET i == CHOOSE j \in DOMAIN ROMAN_PAIRS : ROMAN_PAIRS[j][5] = v
    IN  ROMAN_PAIRS[i][symbol_column(repertoire, lowercase)]

RECURSIVE RefNumeral(_, _, _)
RefNumeral(vs, repertoire, lowercase) ==
    IF vs = <<>> THEN <<>>
    ELSE RefSymbol(Head(vs), repertoire, lowercase)
             \o RefNumeral(Tail(vs), repertoire, lowercase)

\* The decompositions the specification gives as examples.
RomanExample(n) ==
    CASE n = 3999 -> <<1000, 1000, 1000, 900, 90, 9>>
      [] n = 1    -> <<1>>
      [] n = 1984 -> <<1000, 900, 50, 10, 10, 10, 4>>
      [] n = 448  -> <<400, 40, 5, 1, 1, 1>>
      [] OTHER    -> RefGreedy("u16", n)

\* C13: formatting a value n that Roman::new accepts emits the greedy
\* decomposition of n over the table entries that fit the type, in descending
\* order; the emitted values sum to n, nothing is left of n and the debug
\* assertion holds; the entries emitted depend on n and the type only, and the
\* output is their symbols in the chosen repertoire and case.
C13_GreedyDecomposition ==
    (RomanFormatted /\ roman[1].value \in RomanRange(call.ty)) =>
        LET n == roman[1].value
        IN  /\ ~panicked
            /\ leftover = 0
            /\ SeqSum(emitted) = n
            /\ emitted = RefGreedy(call.ty, n)
            /\ \A i \in 1 .. (Len(emitted) - 1) : emitted[i] >= emitted[i + 1]
            /\ call.ty = "u8" => \A i \in DOMAIN emitted : emitted[i] <= 100
            /\ call.ty = "u16" => emitted = RomanExample(n)
            /\ out = RefNumeral(emitted, roman[1].repertoire, call.alt)

\* 1984 in ASCII upper case is MCMLXXXIV.
C13_Witness ==
    /\ RomanFormatted /\ call.ty = "u16" /\ roman[1].value = 1984
    /\ roman[1].repertoire = "Ascii" /\ ~call.alt
    /\ emitted = <<1000, 900, 50, 10, 10, 10, 4>>
    /\ out = <<77, 67, 77, 76, 88, 88, 88, 73, 86>>

(***************************************************************************)
(* TallyMarks.                                                             *)
(***************************************************************************)
\* The number of glyphs g at the start of s.
RECURSIVE LeadingRun(_, _)
LeadingRun(s, g) ==
    IF s = <<>> \/ Head(s) # g THEN 0 ELSE 1 + LeadingRun(Tail(s), g)

\* C14: TallyMarks(n) writes floor(n / 5) group-of-five glyphs and then
\* n mod 5 single glyphs, the groups before the singles, so that
\* 5 * groups + singles = n with singles < 5; 0 gives the empty output and 17
\* three groups and two singles; the counting loop ends with its counter at
\* the number of groups, without overflow, for every n up to the type's
\* maximum.
C14_TallyGroupsThenSingles ==
    Done("tally_marks") =>
        LET groups  == LeadingRun(out, 119672)
            singles == Len(out) - groups
        IN  /\ ~panicked
            /\ \A i \in DOMAIN out : i > groups => out[i] = 119671
            /\ 5 * groups + singles = call.n
            /\ singles < 5
            /\ groups = call.n \div 5 /\ singles = call.n % 5
            /\ iteration = groups
            /\ call.n = 0 => out = <<>>
            /\ call.n = 17 => out = <<119672, 119672, 119672, 119671, 119671>>

C14_Witness ==
    /\ Done("tally_marks") /\ call.n = 17 /\ ~panicked
    /\ out = <<119672, 119672, 119672, 119671, 119671>>

C14_WitnessTypeMaximum ==
    /\ Done("tally_marks") /\ call.ty = "u8" /\ call.n = 255
    /\ Len(out) = 51 /\ iteration = 51

C15_WitnessOutlined ==
    /\ Done("outlined") /\ call.n = 0 /\ call.base = 16 /\ out = <<118000>>

(***************************************************************************)
(* The two digit engines.                                                  *)
(***************************************************************************)
\* The greatest exponent e with radix^e <= m, for m > 0.
RefLog(radix, m) ==
    CHOOSE e \in 0 .. 16 : MathPow(radix, e) <= m /\ m < MathPow(radix, e + 1)

\* The specified algorithm: at each exponent from e down to 0 the digit is
\* remainder / power and the remainder becomes remainder % power.
RECURSIVE RefScan(_, _, _)
RefScan(radix, rem, e) ==
    LET pw   == MathPow(radix, e)
        step == [exp |-> e, divisor |-> pw, remainder |-> rem, digit |-> rem \div pw]
    IN  IF e = 0 THEN <<step>>
        ELSE <<step>> \o RefScan(radix, rem % pw, e - 1)

\* A nonzero value whose magnitude the type holds has been decomposed.
Decomposed(op) ==
    /\ Done(op) /\ call.n # 0 /\ InType(call.ty, Magnitude(call.n))

\* C16: for every nonzero magnitude n, utils::iter_digits, which sets its
\* state to n % divisor, goes through the same steps as the specified
\* algorithm, which reduces the running remainder to remainder % power: at
\* every exponent the divisor, the running remainder and the digit emitted are
\* equal.
C16_RunningRemaindersAgree ==
    Decomposed("utils_iter_digits") =>
        LET m == Magnitude(call.n)
        IN  /\ ~panicked
            /\ steps = RefScan(call.base, m, RefLog(call.base, m))
            /\ digits = [i \in 1 .. Len(steps) |-> steps[i].digit]

\* 205 in base 10: the running remainders are 205, 5 and 5.
C16_Witness ==
    /\ Done("utils_iter_digits") /\ call.ty = "u8" /\ call.n = 205 /\ call.base = 10
    /\ digits = <<2, 0, 5>>
    /\ [i \in 1 .. Len(steps) |-> steps[i].remainder] = <<205, 5, 5>>

\* The glyph table a formatter indexes.
TableOf(op) ==
    CASE op = "superscript" -> SuperscriptDigits
      [] op = "subscript"   -> SubscriptDigits
      [] op = "segmented"   -> SegmentedDigits
      [] OTHER              -> OutlinedDigits

\* The glyphs of the digits 0 .. radix - 1 of the table of a formatter.
DigitGlyphs(op, radix) == {TableOf(op)[i] : i \in 1 .. radix}

\* C17: for a non-negative input of radix r, every digit of utils::iter_digits
\* and of sub_superscript::iter_digits lies in 0 .. r - 1; Superscript,
\* Subscript and Segmented therefore index their tables within bounds: they do
\* not panic and write glyphs of the digits 0 .. r - 1 only (after the plus
\* glyph, where one was asked for); every divisor utils::iter_digits computes
\* is radix^exp, is at most the magnitude and is held by the type.
C17_DigitsWithinRadix ==
    /\ (Done("utils_iter_digits") /\ call.n >= 0) =>
           \A i \in DOMAIN digits : digits[i] \in 0 .. (call.base - 1)
    /\ (Done("utils_iter_digits") /\ call.n > 0) => (~panicked /\ steps # <<>>)
    /\ Done("utils_iter_digits") =>
           \A i \in DOMAIN steps :
               /\ steps[i].divisor = MathPow(call.base, steps[i].exp)
               /\ steps[i].divisor <= Magnitude(call.n)
               /\ InType(call.ty, steps[i].divisor)
    /\ (Done("sub_iter_digits") /\ call.n >= 0) =>
           /\ ~panicked
           /\ \A i \in DOMAIN digits : digits[i] \in 0 .. (call.base - 1)
    /\ (IsSubSuper /\ call.n >= 0) =>
           /\ ~panicked
           /\ \A i \in DOMAIN out :
                  \/ out[i] \in DigitGlyphs(call.op, call.base)
                  \/ i = 1 /\ call.flag = "plus" /\ out[i] = PlusGlyph
    /\ Done("segmented") =>
           /\ ~panicked
           /\ out # <<>>
           /\ \A i \in DOMAIN out : out[i] \in DigitGlyphs(call.op, call.base)

\* 65535 in base 10: the divisors run from 10000 down to 1.
C17_Witness ==
    /\ Done("utils_iter_digits") /\ call.ty = "u16" /\ call.n = 65535 /\ call.base = 10
    /\ digits = <<6, 5, 5, 3, 5>>
    /\ [i \in 1 .. Len(steps) |-> steps[i].divisor] = <<10000, 1000, 100, 10, 1>>

\* C18: for every nonzero value whose absolute value the type holds and for
\* radix 2 and 10, sub_superscript::iter_digits yields the digit sequence of
\* utils::iter_digits; for 0 it yields the empty sequence; the power it starts
\* from is the largest power of the radix the type holds.
C18_EnginesAgree ==
    /\ Decomposed("sub_iter_digits") =>
           /\ ~panicked
           /\ utils_iter_digits(call.ty, call.base, call.n, call.checks).ok
           /\ digits = utils_iter_digits(call.ty, call.base, call.n, call.checks).digits
    /\ Decomposed("utils_iter_digits") =>
           /\ ~panicked
           /\ digits = sub_iter_digits(call.ty, call.n, call.base, call.checks).digits
    /\ (Done("sub_iter_digits") /\ call.n = 0) => (digits = <<>> /\ ~panicked)
    /\ (Done("sub_iter_digits") /\ ~panicked) =>
           /\ \E e \in 0 .. 16 : power = MathPow(call.base, e)
           /\ InType(call.ty, power)
           /\ ~InType(call.ty, power * call.base)

\* 100 in an i8, base 10: the search stops at 100 and no zero is skipped; the
\* zeros after the first digit stay.
C18_Witness ==
    /\ Done("sub_iter_digits") /\ call.ty = "i8" /\ call.n = 100 /\ call.base = 10
    /\ power = 100 /\ digits = <<1, 0, 0>>

C18_WitnessSkipsLeadingZeros ==
    /\ Done("sub_iter_digits") /\ call.ty = "u16" /\ call.n = 7 /\ call.base = 2
    /\ power = 32768 /\ digits = <<1, 1, 1>>

====
